---------------------------- MODULE Spec2Model ----------------------------
(***************************************************************************)
(* Model of the AFD time-clock converter: the source file parser           *)
(* (src/app/parser.py) and the work-day calculator (src/app/calculator.py) *)
(* over the data classes of src/app/models.py.                             *)
(*                                                                         *)
(* Units.  The code holds hours as floats (worked_hours, expected_hours,   *)
(* overtime_hours, deficit_hours, daily_hours, ...).  Every punch has      *)
(* minute precision, so the model holds each hour quantity as the whole    *)
(* number of minutes it stands for (8.0 h is 480, 8.8 h is 528).  Times of *)
(* day are minutes after midnight.  Where the code compares hours (the     *)
(* overtime and deficit block), the comparison is made on the floats the   *)
(* minutes stand for, rounded as Python rounds them.                       *)
(*                                                                         *)
(* Text.  An observation is a record [kind, n]: kind names the message     *)
(* and n is the number the code formats into it (0 when it formats none).  *)
(***************************************************************************)
EXTENDS Integers, Sequences, FiniteSets, TLC

VARIABLES
    \* --- one call of WorkCalculator._calculate_workday ---
    day_date,       \* current_date
    day_punches,    \* punches (the day's list, as process_employee passes it)
    day_schedule,   \* schedule
    day_result,     \* the WorkDay returned, NoResult before the call
    \* --- one Employee under WorkCalculator.process_employee ---
    employee,       \* the Employee object (pis, schedule, workdays)
    emp_punches,    \* the punch list passed in
    target,         \* [month, year] of the call
    calls,          \* number of process_employee calls made on the employee
    \* --- the file and the AFDParser instances reading it ---
    disk,           \* the file: [readable, lines]
    parsers,        \* instance -> AFDParser fields
    returned,       \* log of parse_file calls: <<instance, fields after the call>>
    \* --- one call of WorkCalculator.generate_report ---
    rep_employees,  \* employees (the dict, its values in insertion order)
    rep_punches,    \* punches
    report,         \* the MonthlyReports returned so far, in the order of the calls
    \* --- workers running process_employee side by side on the dict ---
    pool,           \* [employees, month, year]: the dict as it was handed over
    workers         \* position in the dict -> the locals of its worker

vars == <<day_date, day_punches, day_schedule, day_result,
          employee, emp_punches, target, calls,
          disk, parsers, returned,
          rep_employees, rep_punches, report, pool, workers>>

day_vars == <<day_date, day_punches, day_schedule, day_result>>
emp_vars == <<employee, emp_punches, target, calls>>
parser_vars == <<disk, parsers, returned>>
report_vars == <<rep_employees, rep_punches, report, pool, workers>>

-----------------------------------------------------------------------------
(* Bounds of the model *)

\* longest punch list of one day
MaxDayPunches == 5
\* longest punch list passed to process_employee
MaxEmpPunches == 2
\* most process_employee calls on one employee
MaxCalls == 2
\* most lines in a file
MaxLines == 2
\* most parse_file calls logged
MaxRuns == 2
\* most employees in the dict passed to generate_report
MaxEmployees == 3
\* longest punch list of one day in any order
MaxAnyOrderPunches == 4
\* most calls of generate_report on one dict of employees
MaxReports == 2

-----------------------------------------------------------------------------
(* Calendar: datetime.date, datetime.datetime and calendar.monthrange      *)

Min(a, b) == IF a <= b THEN a ELSE b

Max(a, b) == IF a >= b THEN a ELSE b

IsLeap(year) == year % 4 = 0 /\ (year % 100 # 0 \/ year % 400 = 0)

\* calendar.monthrange(year, month)[1]
DaysInMonth(year, month) ==
    IF month = 2 THEN (IF IsLeap(year) THEN 29 ELSE 28)
    ELSE IF month \in {4, 6, 9, 11} THEN 30
    ELSE 31

RECURSIVE DaysBeforeMonth(_, _)
DaysBeforeMonth(year, month) ==
    IF month <= 1 THEN 0
    ELSE DaysBeforeMonth(year, month - 1) + DaysInMonth(year, month - 1)

\* date.toordinal(): 1 for 0001-01-01
Ordinal(d) ==
    LET y == d.year - 1
    IN  y * 365 + (y \div 4) - (y \div 100) + (y \div 400)
        + DaysBeforeMonth(d.year, d.month) + d.day

\* date.weekday(): 0 = Monday .. 6 = Sunday
Weekday(d) == (Ordinal(d) + 6) % 7

Date(year, month, day) == [year |-> year, month |-> month, day |-> day]

\* datetime(year, month, day, hour, minute)
DateTime(year, month, day, hour, minute) ==
    [year |-> year, month |-> month, day |-> day, hour |-> hour, minute |-> minute]

\* Punch.date
DateOf(dt) == Date(dt.year, dt.month, dt.day)

\* Punch.time, as minutes after midnight
TimeOf(dt) == dt.hour * 60 + dt.minute

\* the position of a datetime on the time line, in minutes: datetimes compare
\* and subtract by it
Minutes(dt) == Ordinal(DateOf(dt)) * 1440 + TimeOf(dt)

Punch(dt, nsr, pis) == [datetime |-> dt, nsr |-> nsr, pis |-> pis]

-----------------------------------------------------------------------------
(* models.py: ScheduleConfig, WorkDay                                      *)

ScheduleTypes ==
    {"STANDARD", "SCALE_5X2", "SCALE_6X1", "SCALE_12X36",
     "PARTIAL_30", "PARTIAL_26", "CUSTOM"}

\* ScheduleConfig(): the field defaults
DefaultSchedule ==
    [schedule_type |-> "SCALE_6X1",
     entry_time |-> 8 * 60,
     tolerance_minutes |-> 10,
     daily_hours |-> 8 * 60,
     saturday_hours |-> 4 * 60,
     saturday_entry |-> 8 * 60,
     max_daily_overtime_hours |-> 2 * 60,
     workdays |-> {0, 1, 2, 3, 4, 5}]

Obs(kind, n) == [kind |-> kind, n |-> n]

NoObs == Obs("", 0)

\* WorkDay(date=..., punches=..., is_workday=..., expected_hours=...)
NewWorkDay(current_date, punches, is_workday, expected) ==
    [date |-> current_date,
     punches |-> punches,
     worked_hours |-> 0,
     expected_hours |-> expected,
     overtime_hours |-> 0,
     deficit_hours |-> 0,
     break_minutes |-> 0,
     is_late |-> FALSE,
     late_minutes |-> 0,
     is_absent |-> FALSE,
     is_incomplete |-> FALSE,
     is_workday |-> is_workday,
     observation |-> NoObs]

-----------------------------------------------------------------------------
(* calculator.py: the day classifier                                       *)

\* the mutant of IsWorkday that reads the working-weekday set under every
\* schedule type
IsWorkdayBySet(weekday, schedule) == weekday \in schedule.workdays

\* WorkCalculator._is_workday
IsWorkday(weekday, schedule) ==
    LET stype == schedule.schedule_type
    IN  IF stype = "STANDARD" THEN weekday <= 5
        ELSE IF stype = "SCALE_5X2" THEN weekday \in schedule.workdays
        ELSE IF stype = "SCALE_6X1" THEN weekday <= 5
        ELSE IF stype = "SCALE_12X36" THEN TRUE
        ELSE IF stype \in {"PARTIAL_30", "PARTIAL_26"} THEN weekday \in schedule.workdays
        ELSE IF stype = "CUSTOM" THEN weekday \in schedule.workdays
        ELSE weekday \in schedule.workdays

\* "schedule.daily_hours if schedule.daily_hours else 8.0"
DailyOrEight(schedule) ==
    IF schedule.daily_hours # 0 THEN schedule.daily_hours ELSE 8 * 60

\* WorkCalculator._expected_hours
ExpectedHours(weekday, schedule) ==
    LET stype == schedule.schedule_type
    IN  IF stype = "STANDARD" THEN
            IF weekday <= 4 THEN DailyOrEight(schedule)
            ELSE IF weekday = 5 THEN schedule.saturday_hours
            ELSE 0
        ELSE IF stype = "SCALE_5X2" THEN
            IF weekday \in schedule.workdays THEN schedule.daily_hours ELSE 0
        ELSE IF stype = "SCALE_6X1" THEN
            IF weekday <= 4 THEN DailyOrEight(schedule)
            ELSE IF weekday = 5 THEN schedule.saturday_hours
            ELSE 0
        ELSE IF stype = "SCALE_12X36" THEN 12 * 60
        ELSE IF stype = "PARTIAL_30" THEN
            IF weekday \in schedule.workdays THEN schedule.daily_hours ELSE 0
        ELSE IF stype = "PARTIAL_26" THEN
            IF weekday \in schedule.workdays THEN schedule.daily_hours ELSE 0
        ELSE IF stype = "CUSTOM" THEN
            IF weekday \in schedule.workdays THEN schedule.daily_hours ELSE 0
        ELSE IF weekday \in schedule.workdays THEN schedule.daily_hours ELSE 0

-----------------------------------------------------------------------------
(* Python float (IEEE 754 binary64), as far as the overtime block needs it *)
(*                                                                         *)
(* The comparisons of "Calcula horas extras e deficit" are made on floats  *)
(* of hours: worked = total_minutes / 60, expected, tolerance_minutes / 60 *)
(* and their sum and difference, each rounded to 53 significant bits, ties *)
(* to even.  A float is held exactly, as the number of its units of 2^-60: *)
(* four limbs <<l1, l2, l3, l4>> of base 2^20, least significant first.    *)
(* Every float of 2^-7 hours or more is a whole number of such units,      *)
(* and so is every sum and difference of two of them.                      *)

\* the significant bits of a float
Precision == 53

Limb == 2^20

\* limbs brought back into 0..Limb-1, the carries and borrows passed upwards
Normalize(raw) ==
    LET s2 == raw[2] + (raw[1] \div Limb)
        s3 == raw[3] + (s2 \div Limb)
        s4 == raw[4] + (s3 \div Limb)
    IN  <<raw[1] % Limb, s2 % Limb, s3 % Limb, s4>>

\* the number of bits of n: 0 for 0, k + 1 for 2^k .. 2^(k+1) - 1
BitLength(n) == Cardinality({k \in 0..20 : 2^k <= n})

\* the place of the leading bit of the number, counted from 1
TopBit(number) ==
    IF number[4] > 0 THEN 60 + BitLength(number[4])
    ELSE IF number[3] > 0 THEN 40 + BitLength(number[3])
    ELSE IF number[2] > 0 THEN 20 + BitLength(number[2])
    ELSE BitLength(number[1])

\* the float nearest to the number (to the number and a bit more, when inexact
\* says that something is left below its last unit): the bits under the 53
\* leading ones are cut, and the rest is raised by one when the cut is more
\* than half, or is half and leaves an odd last bit
RoundToFloat(number, inexact) ==
    LET cut == TopBit(number) - Precision
    IN  IF cut <= 0 THEN number
        ELSE LET unit == 2^cut
                 half == 2^(cut - 1)
                 low == number[1] % unit
                 odd == (number[1] \div unit) % 2 = 1
                 up == low > half \/ (low = half /\ (inexact \/ odd))
             IN  Normalize(<<number[1] - low + (IF up THEN unit ELSE 0),
                             number[2], number[3], number[4]>>)

\* minutes / 60: the float of the hours of a whole number of minutes, by long
\* division
Hours(minutes) ==
    LET r4 == minutes % 60
        r3 == (r4 * Limb) % 60
        r2 == (r3 * Limb) % 60
        r1 == (r2 * Limb) % 60
    IN  RoundToFloat(<<(r2 * Limb) \div 60, (r3 * Limb) \div 60,
                       (r4 * Limb) \div 60, minutes \div 60>>,
                     r1 # 0)

\* a < b
FloatLess(a, b) ==
    \E i \in 1..4 : a[i] < b[i] /\ \A j \in (i + 1)..4 : a[j] = b[j]

\* a + b
FloatAdd(a, b) ==
    RoundToFloat(Normalize([i \in 1..4 |-> a[i] + b[i]]), FALSE)

\* a - b, for a >= b
FloatSub(a, b) ==
    RoundToFloat(Normalize([i \in 1..4 |-> a[i] - b[i]]), FALSE)

\* worked > expected + (tolerance_minutes / 60), the operands in minutes
AboveBand(worked, expected, tolerance_minutes) ==
    FloatLess(FloatAdd(Hours(expected), Hours(tolerance_minutes)), Hours(worked))

\* worked < expected - (tolerance_minutes / 60), the operands in minutes; the
\* difference is below zero, and worked is not, when expected is the smaller
BelowBand(worked, expected, tolerance_minutes) ==
    /\ ~FloatLess(Hours(expected), Hours(tolerance_minutes))
    /\ FloatLess(Hours(worked),
                 FloatSub(Hours(expected), Hours(tolerance_minutes)))

\* (worked - expected) > max_daily_overtime_hours, for worked >= expected, the
\* operands in minutes
AboveCap(worked, expected, max_daily_overtime_hours) ==
    FloatLess(Hours(max_daily_overtime_hours),
              FloatSub(Hours(worked), Hours(expected)))

-----------------------------------------------------------------------------
(* calculator.py: one day                                                  *)

\* the mutant of PairMinutes that adds every pair, the negative ones too
RECURSIVE PairMinutesSigned(_, _)
PairMinutesSigned(punches, i) ==
    IF i + 1 > Len(punches) THEN 0
    ELSE Minutes(punches[i + 1].datetime) - Minutes(punches[i].datetime)
         + PairMinutesSigned(punches, i + 2)

\* the loop of _calc_worked_hours over the pairs (i, i+1), i = 1, 3, 5, ...
\* (1-based), in minutes
RECURSIVE PairMinutes(_, _)
PairMinutes(punches, i) ==
    IF i + 1 > Len(punches) THEN 0
    ELSE LET diff == Minutes(punches[i + 1].datetime) - Minutes(punches[i].datetime)
         IN  (IF diff > 0 THEN diff ELSE 0) + PairMinutes(punches, i + 2)

\* the mutant of CalcWorkedHours that takes the span from the first punch to
\* the last
CalcWorkedHoursSpan(punches, schedule) ==
    IF Len(punches) < 2 THEN 0
    ELSE Max(0, Minutes(punches[Len(punches)].datetime) - Minutes(punches[1].datetime))

\* WorkCalculator._calc_worked_hours
CalcWorkedHours(punches, schedule) ==
    IF Len(punches) < 2 THEN 0
    ELSE Max(0, PairMinutes(punches, 1))

\* the mutant of CalcBreakMinutes that reads the break only from exactly 4 punches
CalcBreakMinutesExactlyFour(punches) ==
    IF Len(punches) = 4
    THEN Max(0, Minutes(punches[3].datetime) - Minutes(punches[2].datetime))
    ELSE 0

\* WorkCalculator._calc_break_minutes
CalcBreakMinutes(punches) ==
    IF Len(punches) >= 4
    THEN Max(0, Minutes(punches[3].datetime) - Minutes(punches[2].datetime))
    ELSE 0

\* WorkCalculator._time_diff_minutes
TimeDiffMinutes(expected, actual) == actual - expected

\* the mutant of NoPunchesDay that marks a day off absent as well
NoPunchesDayAlwaysAbsent(workday) ==
    [workday EXCEPT !.is_absent = TRUE,
                    !.deficit_hours = workday.expected_hours,
                    !.observation = Obs("Sem marcacoes", 0)]

\* _calculate_workday, "if not punches": a day without punches
NoPunchesDay(workday) ==
    IF workday.is_workday
    THEN [workday EXCEPT !.is_absent = TRUE,
                         !.deficit_hours = workday.expected_hours,
                         !.observation = Obs("Sem marcacoes", 0)]
    ELSE workday

\* the mutant of SinglePunchDay that never marks the day absent
SinglePunchDayNeverAbsent(workday) ==
    [workday EXCEPT !.worked_hours = 0,
                    !.observation = Obs("Marcacao incompleta", 1),
                    !.is_incomplete = TRUE]

\* _calculate_workday, "if num_punches == 1": a single punch
SinglePunchDay(workday) ==
    [workday EXCEPT !.worked_hours = 0,
                    !.deficit_hours =
                        IF workday.is_workday THEN workday.expected_hours ELSE 0,
                    !.observation = Obs("Marcacao incompleta", 1),
                    !.is_incomplete = TRUE,
                    !.is_absent = IF workday.is_workday THEN TRUE ELSE @]

\* _calculate_workday, "if num_punches % 2 != 0": an unpaired punch
OddNote(workday, num_punches) ==
    IF num_punches % 2 # 0
    THEN [workday EXCEPT !.observation = Obs("Marcacao impar", num_punches),
                         !.is_incomplete = TRUE]
    ELSE workday

\* _calculate_workday, "if num_punches == 2 and is_workday and expected > 6"
ContinuousNote(workday, num_punches) ==
    IF num_punches = 2 /\ workday.is_workday /\ workday.expected_hours > 6 * 60
    THEN [workday EXCEPT !.observation = Obs("Jornada continua", 0)]
    ELSE workday

\* the mutant of DayOff that books the worked hours and no overtime
DayOffUnpaid(workday, worked) ==
    [workday EXCEPT !.worked_hours = worked,
                    !.observation =
                        IF @ = NoObs THEN Obs("Trabalho em dia de folga", 0) ELSE @]

\* _calculate_workday, "if not is_workday and punches": work on a day off
DayOff(workday, worked) ==
    [workday EXCEPT !.worked_hours = worked,
                    !.overtime_hours = worked,
                    !.observation =
                        IF @ = NoObs THEN Obs("Trabalho em dia de folga", 0) ELSE @]

\* the mutant of Lateness that reads saturday_entry on the Saturday of every
\* schedule type
LatenessSaturdayEntryAlways(workday, punches, schedule, weekday) ==
    LET entry_time == TimeOf(punches[1].datetime)
        expected_entry ==
            IF weekday = 5 THEN schedule.saturday_entry ELSE schedule.entry_time
        late_minutes == TimeDiffMinutes(expected_entry, entry_time)
    IN  IF late_minutes > schedule.tolerance_minutes
        THEN [workday EXCEPT !.is_late = TRUE, !.late_minutes = late_minutes]
        ELSE workday

\* _calculate_workday, "Verifica atraso": the first punch against the entry time
Lateness(workday, punches, schedule, weekday) ==
    LET entry_time == TimeOf(punches[1].datetime)
        expected_entry ==
            IF schedule.schedule_type = "STANDARD" /\ weekday = 5
            THEN schedule.saturday_entry
            ELSE schedule.entry_time
        late_minutes == TimeDiffMinutes(expected_entry, entry_time)
    IN  IF late_minutes > schedule.tolerance_minutes
        THEN [workday EXCEPT !.is_late = TRUE, !.late_minutes = late_minutes]
        ELSE workday

\* the mutant of OvertimeDeficit that does not cap the overtime
OvertimeDeficitUncapped(workday, worked, schedule) ==
    LET expected == workday.expected_hours
    IN  IF worked > expected + schedule.tolerance_minutes
        THEN [workday EXCEPT !.overtime_hours = worked - expected]
        ELSE IF worked < expected - schedule.tolerance_minutes
        THEN [workday EXCEPT !.deficit_hours = expected - worked]
        ELSE workday

\* the mutant of OvertimeDeficit that books the distance from the expected hours
\* as deficit on either side of the tolerance band
OvertimeDeficitAbs(workday, worked, schedule) ==
    LET expected == workday.expected_hours
        overtime == worked - expected
        over == worked > expected + schedule.tolerance_minutes
        out == over \/ worked < expected - schedule.tolerance_minutes
    IN  [workday EXCEPT
            !.overtime_hours =
                IF over THEN Min(overtime, schedule.max_daily_overtime_hours) ELSE @,
            !.deficit_hours =
                IF out THEN Max(expected - worked, worked - expected) ELSE @,
            !.observation =
                IF over /\ overtime > schedule.max_daily_overtime_hours
                THEN Obs("Excedeu limite", schedule.max_daily_overtime_hours)
                ELSE @]

\* _calculate_workday, "Calcula horas extras e deficit": the three comparisons
\* as the floats make them, the hours booked in minutes
OvertimeDeficit(workday, worked, schedule) ==
    LET expected == workday.expected_hours
        overtime == worked - expected
    IN  IF AboveBand(worked, expected, schedule.tolerance_minutes)
        THEN [workday EXCEPT
                !.overtime_hours = Min(overtime, schedule.max_daily_overtime_hours),
                !.observation =
                    IF AboveCap(worked, expected, schedule.max_daily_overtime_hours)
                    THEN Obs("Excedeu limite", schedule.max_daily_overtime_hours)
                    ELSE @]
        ELSE IF BelowBand(worked, expected, schedule.tolerance_minutes)
        THEN [workday EXCEPT !.deficit_hours = expected - worked]
        ELSE workday

\* _calculate_workday, "Calcula intervalo realizado" and the minimum-break note
BreakCheck(workday, punches) ==
    LET break_minutes == CalcBreakMinutes(punches)
    IN  [workday EXCEPT
            !.break_minutes = break_minutes,
            !.observation =
                IF workday.expected_hours > 6 * 60 /\ break_minutes < 60
                   /\ break_minutes > 0
                THEN Obs("Intervalo insuficiente", break_minutes)
                ELSE @]

\* WorkCalculator._calculate_workday
CalculateWorkday(current_date, punches, schedule) ==
    LET weekday == Weekday(current_date)
        is_workday == IsWorkday(weekday, schedule)
        expected == ExpectedHours(weekday, schedule)
        workday == NewWorkDay(current_date, punches, is_workday, expected)
        num_punches == Len(punches)
    IN  IF num_punches = 0 THEN NoPunchesDay(workday)
        ELSE IF num_punches = 1 THEN SinglePunchDay(workday)
        ELSE LET noted == ContinuousNote(OddNote(workday, num_punches), num_punches)
                 worked == CalcWorkedHours(punches, schedule)
             IN  IF ~is_workday THEN DayOff(noted, worked)
                 ELSE BreakCheck(
                        OvertimeDeficit(
                          Lateness([noted EXCEPT !.worked_hours = worked],
                                   punches, schedule, weekday),
                          worked, schedule),
                        punches)

-----------------------------------------------------------------------------
(* list.sort(key=lambda p: p.datetime): stable                             *)

\* the mutant of InsertByDatetime that puts a punch before the punches of the
\* same datetime
InsertBeforeEqual(sorted, p) ==
    LET n == Cardinality({i \in 1..Len(sorted) :
                 Minutes(sorted[i].datetime) < Minutes(p.datetime)})
    IN  SubSeq(sorted, 1, n) \o <<p>> \o SubSeq(sorted, n + 1, Len(sorted))

\* a punch put into a sorted list after every punch that is not later than it
InsertByDatetime(sorted, p) ==
    LET n == Cardinality({i \in 1..Len(sorted) :
                 Minutes(sorted[i].datetime) <= Minutes(p.datetime)})
    IN  SubSeq(sorted, 1, n) \o <<p>> \o SubSeq(sorted, n + 1, Len(sorted))

\* the mutant of SortByDatetime that leaves the list in the order given
SortByDatetimeAsGiven(punches) == punches

RECURSIVE SortByDatetime(_)
SortByDatetime(punches) ==
    IF punches = <<>> THEN <<>>
    ELSE InsertByDatetime(SortByDatetime(SubSeq(punches, 1, Len(punches) - 1)),
                          punches[Len(punches)])

-----------------------------------------------------------------------------
(* calculator.py: one employee, one month                                  *)

\* Employee(pis=...): schedule is <<>> for None, <<s>> for an override
NewEmployee(pis) ==
    [pis |-> pis, name |-> "", schedule |-> <<>>, workdays |-> <<>>]

\* "employee.schedule or self.default_schedule"
ScheduleFor(emp, default_schedule) ==
    IF emp.schedule # <<>> THEN emp.schedule[1] ELSE default_schedule

\* the mutant of PunchesOfDay that groups by day of the month only, so that a
\* punch of another month lands on the day of the same number
PunchesOfDayNumber(punches, month, year, current_date) ==
    LET OnDay(p) == p.datetime.day = current_date.day
    IN  SortByDatetime(SelectSeq(punches, OnDay))

\* process_employee, "Agrupa marcacoes por dia" and "Ordena marcacoes dentro de
\* cada dia": punches_by_day.get(current_date, [])
PunchesOfDay(punches, month, year, current_date) ==
    LET InMonth(p) == p.datetime.month = month /\ p.datetime.year = year
        OnDay(p) == DateOf(p.datetime) = current_date
    IN  SortByDatetime(SelectSeq(SelectSeq(punches, InMonth), OnDay))

\* the mutant of DayNumbers that stops one day short
DayNumbersShort(year, month) == 1..(DaysInMonth(year, month) - 1)

\* process_employee, "range(1, days_in_month + 1)"
DayNumbers(year, month) == 1..DaysInMonth(year, month)

\* WorkCalculator.process_employee: the employee with workdays replaced
ProcessEmployee(emp, punches, month, year, default_schedule) ==
    LET schedule == ScheduleFor(emp, default_schedule)
        days == DayNumbers(year, month)
    IN  [emp EXCEPT !.workdays =
            [day_num \in 1..Cardinality(days) |->
                LET current_date == Date(year, month, day_num)
                IN  CalculateWorkday(
                        current_date,
                        PunchesOfDay(punches, month, year, current_date),
                        schedule)]]

-----------------------------------------------------------------------------
(* parser.py: the lines of a file                                          *)
(*                                                                         *)
(* A line is held as what the code reads of it after strip():              *)
(*   len      its length                                                   *)
(*   nsr      line[:9], the sequence number                                *)
(*   rtype    line[9], the record type ("" when the line is shorter)       *)
(*   repc     "REP_C" or "REP-C" is in line.upper()                        *)
(*   sig      "==" is in the line                                          *)
(*   trailer  the line starts with "999999999"                             *)
(*   hdr_iso  the header fields of the line hold an ISO timestamp          *)
(*   layout   the layout the record is written in: "fixed" or "iso"        *)
(*   stamp    what follows the record type: "iso" when line[10:35] matches *)
(*            ISO_DT_PATTERN, "compact" when line[10:22] is 12 digits      *)
(*            (ddmmaaaahhmm), "alpha" otherwise                            *)
(*   day .. minute   the numbers of the stamp                              *)
(*   pis, name       the identifier and name fields of a type 3 or 5       *)
(*                   record, at the offsets of its layout                  *)
(*   cnpj, razao     the company fields of a type 1 record, at the offsets *)
(*                   of its layout (cnpj "" unless it has 14 digits)       *)

BlankLine ==
    [len |-> 0, nsr |-> 0, rtype |-> "", repc |-> FALSE, sig |-> FALSE,
     trailer |-> FALSE, hdr_iso |-> FALSE, layout |-> "fixed", stamp |-> "alpha",
     day |-> 0, month |-> 0, year |-> 0, hour |-> 0, minute |-> 0,
     pis |-> "", name |-> "", cnpj |-> "", razao |-> ""]

\* NSR(9) + "3" + ddmmaaaa + hhmm + PIS(12)
FixedPunch(nsr, day, month, year, hour, minute, pis) ==
    [BlankLine EXCEPT !.len = 34, !.nsr = nsr, !.rtype = "3", !.stamp = "compact",
                      !.day = day, !.month = month, !.year = year,
                      !.hour = hour, !.minute = minute, !.pis = pis]

\* NSR(9) + "3" + datetime(25, ISO 8601) + PIS(12)
IsoPunch(nsr, day, month, year, hour, minute, pis) ==
    [BlankLine EXCEPT !.len = 47, !.nsr = nsr, !.rtype = "3", !.layout = "iso",
                      !.stamp = "iso",
                      !.day = day, !.month = month, !.year = year,
                      !.hour = hour, !.minute = minute, !.pis = pis]

\* NSR(9) + "5" + data(8) + hora(4) + op + PIS(12) + nome(52)
FixedRegistration(nsr, pis, name) ==
    [BlankLine EXCEPT !.len = 87, !.nsr = nsr, !.rtype = "5", !.stamp = "compact",
                      !.day = 1, !.month = 2, !.year = 2024,
                      !.pis = pis, !.name = name]

\* NSR(9) + "5" + datetime(25, ISO 8601) + op + PIS(12) + nome(52)
IsoRegistration(nsr, pis, name) ==
    [BlankLine EXCEPT !.len = 100, !.nsr = nsr, !.rtype = "5", !.layout = "iso",
                      !.stamp = "iso",
                      !.day = 1, !.month = 2, !.year = 2024,
                      !.pis = pis, !.name = name]

\* a record of another type (2, 4, 6, ...) with a compact stamp
OtherRecord(nsr, rtype) ==
    [BlankLine EXCEPT !.len = 34, !.nsr = nsr, !.rtype = rtype, !.stamp = "compact",
                      !.day = 1, !.month = 2, !.year = 2024]

\* NSR(9) + "1" + the company fields
Header(layout, repc, hdr_iso, cnpj, razao) ==
    [BlankLine EXCEPT !.len = 232, !.nsr = 0, !.rtype = "1", !.layout = layout,
                      !.repc = repc, !.hdr_iso = hdr_iso,
                      !.cnpj = cnpj, !.razao = razao]

-----------------------------------------------------------------------------
(* parser.py: AFDParser                                                    *)

\* Company()
NewCompany == [name |-> "", cnpj |-> ""]

\* AFDParser.__init__
FreshParser ==
    [punches |-> <<>>,
     employees |-> <<>>,
     company |-> NewCompany,
     errors |-> <<>>,
     total_lines |-> 0,
     parsed_lines |-> 0,
     format_detected |-> "unknown"]

\* an entry of self.errors: where it arose, the NSR or line it names, the cause
Error(place, ref, cause) == [place |-> place, ref |-> ref, cause |-> cause]

\* self.employees is a dict: the model holds its values in insertion order
HasEmployee(employees, pis) ==
    \E i \in 1..Len(employees) : employees[i].pis = pis

\* the mutant of WithEmployee that creates no employee
WithEmployeeNever(employees, pis) == employees

\* "if pis not in self.employees: self.employees[pis] = Employee(pis=pis)"
WithEmployee(employees, pis) ==
    IF HasEmployee(employees, pis) THEN employees
    ELSE Append(employees, NewEmployee(pis))

\* the mutant of WithName that writes the name into every employee
WithNameAll(employees, pis, name) ==
    [i \in 1..Len(employees) |-> [employees[i] EXCEPT !.name = name]]

\* "self.employees[pis].name = name"
WithName(employees, pis, name) ==
    [i \in 1..Len(employees) |->
        IF employees[i].pis = pis THEN [employees[i] EXCEPT !.name = name]
        ELSE employees[i]]

\* the mutant of DetectFormat that falls back on the header fields of the first
\* line when the file has no punch record
DetectFormatHeaderFallback(lines) ==
    LET punch_lines == {i \in 1..Len(lines) : lines[i].len >= 20 /\ lines[i].rtype = "3"}
        first == CHOOSE i \in punch_lines : \A j \in punch_lines : i <= j
    IN  IF lines # <<>> /\ lines[1].repc THEN "portaria671"
        ELSE IF punch_lines # {} THEN
            IF lines[first].stamp = "iso" THEN "controlid_iso" ELSE "portaria671"
        ELSE IF lines # <<>> /\ lines[1].hdr_iso THEN "controlid_iso"
        ELSE "portaria671"

\* the mutant of DetectFormat that does not look for REP-C in the first line
DetectFormatNoHeaderCheck(lines) ==
    LET punch_lines == {i \in 1..Len(lines) : lines[i].len >= 20 /\ lines[i].rtype = "3"}
        first == CHOOSE i \in punch_lines : \A j \in punch_lines : i <= j
    IN  IF punch_lines # {} THEN
            IF lines[first].stamp = "iso" THEN "controlid_iso" ELSE "portaria671"
        ELSE "portaria671"

\* AFDParser._detect_format: the value left in self.format_detected
DetectFormat(lines) ==
    LET punch_lines == {i \in 1..Len(lines) : lines[i].len >= 20 /\ lines[i].rtype = "3"}
        first == CHOOSE i \in punch_lines : \A j \in punch_lines : i <= j
    IN  IF lines # <<>> /\ lines[1].repc THEN "portaria671"
        ELSE IF punch_lines # {} THEN
            IF lines[first].stamp = "iso" THEN "controlid_iso" ELSE "portaria671"
        ELSE "portaria671"

\* AFDParser._parse_header: the company fields at the offsets of the detected
\* layout; read at the other layout's offsets they are shifted by one character
ParseHeader(st, line) ==
    LET own == (st.format_detected = "controlid_iso") = (line.layout = "iso")
        cnpj == IF own \/ line.cnpj = "" THEN line.cnpj ELSE "shifted"
        razao == IF own \/ line.razao = "" THEN line.razao ELSE "shifted"
    IN  [st EXCEPT !.company.cnpj = IF cnpj # "" THEN cnpj ELSE @,
                   !.company.name = IF razao # "" THEN razao ELSE @]

\* AFDParser._parse_punch
ParsePunch(st, line) ==
    LET iso == st.format_detected = "controlid_iso"
    IN  IF iso /\ line.stamp # "iso" THEN st
        ELSE IF ~iso /\ line.stamp # "compact" THEN
            [st EXCEPT !.errors =
                Append(@, Error("Registro tipo 3", line.nsr, "invalid literal for int()"))]
        ELSE IF line.pis = "" THEN st
        ELSE IF ~(1 <= line.day /\ line.day <= 31 /\ 1 <= line.month /\ line.month <= 12
                  /\ 2000 <= line.year /\ line.year <= 2100) THEN st
        ELSE IF ~(0 <= line.hour /\ line.hour <= 23
                  /\ 0 <= line.minute /\ line.minute <= 59) THEN st
        ELSE IF line.day > DaysInMonth(line.year, line.month) THEN
            [st EXCEPT !.errors =
                Append(@, Error("Registro tipo 3", line.nsr, "day is out of range for month"))]
        ELSE [st EXCEPT
                !.punches = Append(@,
                    Punch(DateTime(line.year, line.month, line.day, line.hour, line.minute),
                          line.nsr, line.pis)),
                !.employees = WithEmployee(@, line.pis)]

\* AFDParser._parse_employee: the identifier and the name at the offsets of the
\* detected layout.  Read at the ISO offsets a fixed-layout record yields the
\* start of its name as identifier; read at the fixed offsets an ISO record
\* yields the end of its timestamp as identifier and the rest as name.
ParseEmployee(st, line) ==
    LET iso == st.format_detected = "controlid_iso"
        own == iso = (line.layout = "iso")
        pis == IF own THEN line.pis
               ELSE IF iso THEN (IF line.name # "" THEN "name-as-pis" ELSE "")
               ELSE "stamp-as-pis"
        name == IF own THEN line.name
                ELSE IF iso THEN ""
                ELSE "shifted"
    IN  IF pis = "" THEN st
        ELSE LET created == WithEmployee(st.employees, pis)
             IN  [st EXCEPT !.employees =
                    IF name # "" THEN WithName(created, pis, name) ELSE created]

\* the mutant of ParseLine that decodes signature lines as records
ParseLineSignatureDecoded(st, line, line_num) ==
    IF line.len < 10 THEN st
    ELSE IF line.trailer THEN st
    ELSE IF line.rtype = "1" THEN ParseHeader(st, line)
    ELSE IF line.rtype = "3" THEN ParsePunch(st, line)
    ELSE IF line.rtype = "5" THEN ParseEmployee(st, line)
    ELSE st

\* AFDParser._parse_line
ParseLine(st, line, line_num) ==
    IF line.len < 10 THEN st
    ELSE IF line.trailer THEN st
    ELSE IF line.sig /\ line.len < 120 THEN st
    ELSE IF line.rtype = "1" THEN ParseHeader(st, line)
    ELSE IF line.rtype = "2" THEN st
    ELSE IF line.rtype = "3" THEN ParsePunch(st, line)
    ELSE IF line.rtype = "4" THEN st
    ELSE IF line.rtype = "5" THEN ParseEmployee(st, line)
    ELSE IF line.rtype = "6" THEN st
    ELSE st

\* the mutant of ParseLines that ends the loop at the first line that adds to
\* the error log
RECURSIVE ParseLinesAborting(_, _, _)
ParseLinesAborting(st, lines, line_num) ==
    IF line_num > Len(lines) THEN st
    ELSE IF lines[line_num].len = 0 THEN ParseLinesAborting(st, lines, line_num + 1)
    ELSE LET next == [ParseLine(st, lines[line_num], line_num)
                        EXCEPT !.parsed_lines = @ + 1]
         IN  IF next.errors # st.errors THEN next
             ELSE ParseLinesAborting(next, lines, line_num + 1)

\* parse_file, "for line_num, line in enumerate(content, 1)", from line_num on.
\* No call of _parse_line raises (_parse_header and _parse_punch catch what
\* they raise), so each line that is not blank counts as parsed.
RECURSIVE ParseLines(_, _, _)
ParseLines(st, lines, line_num) ==
    IF line_num > Len(lines) THEN st
    ELSE IF lines[line_num].len = 0 THEN ParseLines(st, lines, line_num + 1)
    ELSE ParseLines(
            [ParseLine(st, lines[line_num], line_num) EXCEPT !.parsed_lines = @ + 1],
            lines, line_num + 1)

\* the file at filepath: its lines, or no file that can be read
File(lines) == [readable |-> TRUE, failure |-> "", lines |-> lines]

\* _read_file, "except FileNotFoundError"
NoFile == [readable |-> FALSE, failure |-> "Arquivo nao encontrado", lines |-> <<>>]

\* _read_file, "except Exception": a file that is there and cannot be opened
LockedFile == [readable |-> FALSE, failure |-> "Erro ao ler arquivo", lines |-> <<>>]

\* the mutant of ResetParser that keeps the error log of the run before
ResetKeepingErrors(st) == [FreshParser EXCEPT !.errors = st.errors]

\* parse_file, the assignments before the file is read
ResetParser(st) == FreshParser

\* the mutant of Decode that logs nothing when the file cannot be read
DecodeWithoutReadError(st, file) ==
    LET reset == ResetParser(st)
    IN  IF ~file.readable THEN reset
        ELSE ParseLines([reset EXCEPT !.total_lines = Len(file.lines),
                                      !.format_detected = DetectFormat(file.lines)],
                        file.lines, 1)

\* parse_file up to and without the final sort
Decode(st, file) ==
    LET reset == ResetParser(st)
    IN  IF ~file.readable
        THEN [reset EXCEPT !.errors = Append(@, Error("Arquivo", 0, file.failure))]
        ELSE ParseLines([reset EXCEPT !.total_lines = Len(file.lines),
                                      !.format_detected = DetectFormat(file.lines)],
                        file.lines, 1)

\* AFDParser.parse_file: the fields of the instance when it returns
ParseFile(st, file) ==
    LET decoded == Decode(st, file)
    IN  IF ~file.readable THEN decoded
        ELSE [decoded EXCEPT !.punches = SortByDatetime(@)]

\* AFDParser.get_punches_by_pis
GetPunchesByPis(st, pis) ==
    LET Mine(p) == p.pis = pis
    IN  SortByDatetime(SelectSeq(st.punches, Mine))

-----------------------------------------------------------------------------
(* The day specification: one call of _calculate_workday                   *)

\* the schedules the calls are made with: the default and one of each variant
ScheduleSet ==
    {DefaultSchedule,
     [DefaultSchedule EXCEPT !.saturday_entry = 9 * 60],
     [DefaultSchedule EXCEPT !.schedule_type = "STANDARD",
                             !.saturday_entry = 9 * 60],
     [DefaultSchedule EXCEPT !.schedule_type = "STANDARD",
                             !.daily_hours = 0,
                             !.tolerance_minutes = 0],
     [DefaultSchedule EXCEPT !.schedule_type = "SCALE_5X2",
                             !.daily_hours = 8 * 60 + 48,
                             !.workdays = {0, 1, 2, 3, 4}],
     [DefaultSchedule EXCEPT !.schedule_type = "SCALE_12X36"],
     [DefaultSchedule EXCEPT !.schedule_type = "PARTIAL_30",
                             !.daily_hours = 6 * 60,
                             !.max_daily_overtime_hours = 0,
                             !.workdays = {0, 1, 2, 3, 4}],
     [DefaultSchedule EXCEPT !.schedule_type = "PARTIAL_26",
                             !.daily_hours = 5 * 60 + 12,
                             !.max_daily_overtime_hours = 60,
                             !.workdays = {0, 1, 2, 3, 4}],
     [DefaultSchedule EXCEPT !.schedule_type = "CUSTOM",
                             !.workdays = {1, 3, 6}]}

\* the times of day of the punches: 08:00, 08:05, 12:00, 12:30, 13:00, 16:38,
\* 17:00, 18:30, 22:00
TimeSet ==
    {8 * 60, 8 * 60 + 5, 12 * 60, 12 * 60 + 30, 13 * 60, 16 * 60 + 38, 17 * 60,
     18 * 60 + 30, 22 * 60}

\* one week: Monday 2024-01-01 to Sunday 2024-01-07
DayDates == {Date(2024, 1, d) : d \in 1..7}

\* the punch lists of a day: time-ordered, as process_employee sorts them
RECURSIVE OrderedTimes(_)
OrderedTimes(n) ==
    IF n = 0 THEN {<<>>}
    ELSE {Append(s, t) : <<s, t>> \in
            {<<s, t>> \in OrderedTimes(n - 1) \X TimeSet :
                Len(s) = 0 \/ s[Len(s)] <= t}}

DayPunchLists(d) ==
    {[i \in 1..Len(ts) |->
        Punch(DateTime(d.year, d.month, d.day, ts[i] \div 60, ts[i] % 60), i, "P1")]
     : ts \in UNION {OrderedTimes(n) : n \in 0..MaxDayPunches}}

\* the AFDParser instances
Instances == {1, 2}

\* the variables of the other specifications, at rest
EmpIdle ==
    /\ employee = [pis |-> "", name |-> "", schedule |-> <<>>, workdays |-> <<>>]
    /\ emp_punches = <<>>
    /\ target = [month |-> 1, year |-> 2024]
    /\ calls = 0

ParserIdle ==
    /\ disk = NoFile
    /\ parsers = [i \in Instances |-> FreshParser]
    /\ returned = <<>>

\* no workers
WorkersIdle ==
    /\ pool = [employees |-> <<>>, month |-> 1, year |-> 2024]
    /\ workers = <<>>

ReportIdle ==
    /\ rep_employees = <<>>
    /\ rep_punches = <<>>
    /\ report = <<>>
    /\ WorkersIdle

DayIdle ==
    /\ day_date = Date(2024, 1, 1)
    /\ day_punches = <<>>
    /\ day_schedule = DefaultSchedule
    /\ day_result = <<>>

InitDay ==
    /\ day_date \in DayDates
    /\ day_schedule \in ScheduleSet
    /\ day_punches \in DayPunchLists(day_date)
    /\ day_result = <<>>
    /\ EmpIdle
    /\ ParserIdle
    /\ ReportIdle

\* the call: day_result holds the WorkDay returned
CalcDay ==
    /\ day_result = <<>>
    /\ day_result' = <<CalculateWorkday(day_date, day_punches, day_schedule)>>
    /\ UNCHANGED <<day_date, day_punches, day_schedule>>
    /\ UNCHANGED <<emp_vars, parser_vars, report_vars>>

NextDay == CalcDay

SpecDay == InitDay /\ [][NextDay]_vars

-----------------------------------------------------------------------------
(* The any-order day specification: one call of _calculate_workday on a    *)
(* punch list that is not sorted                                           *)

\* the times of day of the punches: 08:00, 12:00, 12:30, 17:00
AnyOrderTimes == {8 * 60, 12 * 60, 12 * 60 + 30, 17 * 60}

\* the punch lists of a day, in every order of their times
AnyOrderPunchLists(d) ==
    {[i \in 1..Len(ts) |->
        Punch(DateTime(d.year, d.month, d.day, ts[i] \div 60, ts[i] % 60), i, "P1")]
     : ts \in UNION {[1..n -> AnyOrderTimes] : n \in 0..MaxAnyOrderPunches}}

InitDayAnyOrder ==
    /\ day_date \in DayDates
    /\ day_schedule \in ScheduleSet
    /\ day_punches \in AnyOrderPunchLists(day_date)
    /\ day_result = <<>>
    /\ EmpIdle
    /\ ParserIdle
    /\ ReportIdle

SpecDayAnyOrder == InitDayAnyOrder /\ [][NextDay]_vars

-----------------------------------------------------------------------------
(* The month specification: process_employee calls on one employee         *)

\* WorkCalculator(): the default schedule of the calculator
CalculatorDefaultSchedule == DefaultSchedule

\* the punches handed to process_employee: an evening punch, two punches of
\* the next day (a leap day) that are listed out of time order, the first of
\* them just after midnight, and one just after midnight of the next month
EmpPunchSet ==
    {Punch(DateTime(2024, 2, 28, 22, 0), 1, "P1"),
     Punch(DateTime(2024, 2, 29, 8, 0), 2, "P1"),
     Punch(DateTime(2024, 2, 29, 0, 30), 3, "P1"),
     Punch(DateTime(2024, 3, 1, 0, 30), 4, "P1")}

EmpPunchLists == UNION {[1..n -> EmpPunchSet] : n \in 0..MaxEmpPunches}

\* the years of the calls: a leap year and a common century year
Years == {2024, 2100}

Months == 1..12

EmployeeSet ==
    {NewEmployee("P1"),
     [NewEmployee("P1") EXCEPT
        !.schedule = <<[DefaultSchedule EXCEPT !.schedule_type = "SCALE_5X2",
                                               !.workdays = {0, 1, 2, 3, 4}]>>]}

InitMonth ==
    /\ employee \in EmployeeSet
    /\ emp_punches \in EmpPunchLists
    /\ target = [month |-> 1, year |-> 2024]
    /\ calls = 0
    /\ DayIdle
    /\ ParserIdle
    /\ ReportIdle

\* a call process_employee(employee, emp_punches, month, year)
ProcessEmployeeCall ==
    /\ calls < MaxCalls
    /\ \E month \in Months, year \in Years :
          /\ employee' = ProcessEmployee(employee, emp_punches, month, year,
                                         CalculatorDefaultSchedule)
          /\ target' = [month |-> month, year |-> year]
    /\ calls' = calls + 1
    /\ UNCHANGED emp_punches
    /\ UNCHANGED <<day_vars, parser_vars, report_vars>>

NextMonth == ProcessEmployeeCall

SpecMonth == InitMonth /\ [][NextMonth]_vars

-----------------------------------------------------------------------------
(* The parser specification: parse_file calls on one unchanged file        *)

\* the lines the files are made of
LineSet ==
    {\* headers: one announcing REP-C, one of the ISO layout with an ISO timestamp
     Header("fixed", TRUE, FALSE, "12.345.678/0001-90", "EMPRESA"),
     Header("iso", FALSE, TRUE, "12.345.678/0001-90", "EMPRESA"),
     \* fixed-layout punches: two of the same minute with descending NSR, one earlier
     FixedPunch(2, 29, 2, 2024, 8, 0, "P1"),
     FixedPunch(1, 29, 2, 2024, 8, 0, "P1"),
     FixedPunch(3, 28, 2, 2024, 17, 0, "P2"),
     \* ISO-layout punches
     IsoPunch(4, 29, 2, 2024, 8, 0, "P1"),
     IsoPunch(5, 28, 2, 2024, 12, 0, "P2"),
     \* a day the month does not have, a month out of range, no identifier
     FixedPunch(6, 31, 2, 2024, 8, 0, "P1"),
     FixedPunch(7, 1, 13, 2024, 8, 0, "P1"),
     FixedPunch(8, 1, 2, 2024, 8, 0, ""),
     \* an hour and a year out of range, and an ISO punch with minute 60
     FixedPunch(16, 1, 2, 2024, 24, 0, "P1"),
     FixedPunch(17, 1, 2, 1999, 8, 0, "P1"),
     IsoPunch(18, 1, 2, 2024, 8, 60, "P2"),
     \* a punch record with letters for its date, and one cut short
     [FixedPunch(9, 0, 0, 0, 0, 0, "P1") EXCEPT !.stamp = "alpha"],
     [BlankLine EXCEPT !.len = 15, !.nsr = 10, !.rtype = "3"],
     \* registrations, with and without a name
     FixedRegistration(11, "P1", "ANA"),
     FixedRegistration(12, "P3", ""),
     FixedRegistration(19, "P1", ""),
     FixedRegistration(20, "P1", "BIA"),
     IsoRegistration(21, "P1", "ANA"),
     \* records without effect, a blank line, the trailer, a signature
     OtherRecord(13, "2"),
     OtherRecord(14, "4"),
     OtherRecord(15, "6"),
     BlankLine,
     [BlankLine EXCEPT !.len = 5],
     [OtherRecord(999999999, "9") EXCEPT !.trailer = TRUE],
     [BlankLine EXCEPT !.len = 100, !.sig = TRUE, !.rtype = "3"]}

Files == {File(lines) : lines \in UNION {[1..n -> LineSet] : n \in 0..MaxLines}}

InitParser ==
    /\ disk \in Files \cup {NoFile, LockedFile}
    /\ parsers = [i \in Instances |-> FreshParser]
    /\ returned = <<>>
    /\ DayIdle
    /\ EmpIdle
    /\ ReportIdle

\* a call parse_file(filepath) on instance i; the file is as it was
ParseFileCall(i) ==
    /\ Len(returned) < MaxRuns
    /\ parsers' = [parsers EXCEPT ![i] = ParseFile(@, disk)]
    /\ returned' = Append(returned, parsers'[i])
    /\ UNCHANGED disk
    /\ UNCHANGED <<day_vars, emp_vars, report_vars>>

NextParser == \E i \in Instances : ParseFileCall(i)

SpecParser == InitParser /\ [][NextParser]_vars

-----------------------------------------------------------------------------
(* calculator.py: the monthly report                                       *)
(*                                                                         *)
(* The names and identifiers of this part are texts that the code compares *)
(* (sort by display_name), so they are held as Python holds them: the      *)
(* sequence of their code points.                                          *)

\* "PIS ", the start of the display name of an employee without a name
PisLabel == <<80, 73, 83, 32>>

\* the mutant of DisplayName that shows a nameless employee as its bare
\* identifier
DisplayNameBarePis(emp) ==
    IF Len(emp.name) > 0 THEN emp.name ELSE emp.pis

\* Employee.display_name
DisplayName(emp) ==
    IF Len(emp.name) > 0 THEN emp.name ELSE PisLabel \o emp.pis

\* str < str: at the first place where the texts differ, the code point of a is
\* the lower one, or a ends there
TextLess(a, b) ==
    \E i \in 1..(Min(Len(a), Len(b)) + 1) :
        /\ \A j \in 1..(i - 1) : a[j] = b[j]
        /\ IF i > Len(a) THEN i <= Len(b)
           ELSE i <= Len(b) /\ a[i] < b[i]

\* an employee put into a sorted list after every employee whose display name
\* is not greater than its own
InsertByDisplayName(sorted, emp) ==
    LET n == Cardinality({i \in 1..Len(sorted) :
                 ~TextLess(DisplayName(emp), DisplayName(sorted[i]))})
    IN  SubSeq(sorted, 1, n) \o <<emp>> \o SubSeq(sorted, n + 1, Len(sorted))

\* report.employees.sort(key=lambda e: e.display_name)
RECURSIVE SortByDisplayName(_)
SortByDisplayName(employees) ==
    IF employees = <<>> THEN <<>>
    ELSE InsertByDisplayName(
            SortByDisplayName(SubSeq(employees, 1, Len(employees) - 1)),
            employees[Len(employees)])

\* generate_report, the loop over employees.items(): each employee processed
\* with its own punches; the objects of the dict are the ones changed
ProcessAll(employees, punches, month, year, default_schedule) ==
    [i \in 1..Len(employees) |->
        LET Mine(p) == p.pis = employees[i].pis
        IN  ProcessEmployee(employees[i], SelectSeq(punches, Mine), month, year,
                            default_schedule)]

\* WorkCalculator.generate_report: the MonthlyReport returned (generated_at,
\* the reading of the clock, is left out)
GenerateReport(employees, punches, company, month, year, default_schedule) ==
    [company |-> company,
     month |-> month,
     year |-> year,
     employees |->
        SortByDisplayName(ProcessAll(employees, punches, month, year, default_schedule))]

\* the mutant of HeldObjects in which a report holds copies of the employees
HeldCopies(held, employees) == held

\* report.employees.append(processed): the list of a report holds the Employee
\* objects of the dict, so it shows them as they are now.  held is the list as
\* it was, employees the dict as it is.
HeldObjects(held, employees) ==
    [i \in 1..Len(held) |->
        CHOOSE e \in {employees[k] : k \in 1..Len(employees)} : e.pis = held[i].pis]

-----------------------------------------------------------------------------
(* The report specification: calls of generate_report on one dict          *)

\* the identifiers "111", "222", "333"
PisSet == {<<49, 49, 49>>, <<50, 50, 50>>, <<51, 51, 51>>}

\* the names: none, "ANA", "ZECA"
NameSet == {<<>>, <<65, 78, 65>>, <<90, 69, 67, 65>>}

\* Employee(pis=..., name=...)
Employee(pis, name) == [NewEmployee(pis) EXCEPT !.name = name]

\* the dicts passed: up to MaxEmployees employees under different identifiers
EmployeeMaps ==
    {emps \in UNION {[1..n -> {Employee(pis, name) : pis \in PisSet, name \in NameSet}]
                     : n \in 0..MaxEmployees} :
        \A i, j \in 1..Len(emps) : i # j => emps[i].pis # emps[j].pis}

\* the punch lists passed: none, or a day of "111" and one punch of "222"
ReportPunchLists ==
    {<<>>,
     <<Punch(DateTime(2024, 2, 29, 8, 0), 1, <<49, 49, 49>>),
       Punch(DateTime(2024, 2, 29, 12, 0), 2, <<50, 50, 50>>),
       Punch(DateTime(2024, 2, 29, 17, 0), 3, <<49, 49, 49>>)>>}

InitReport ==
    /\ rep_employees \in EmployeeMaps
    /\ rep_punches \in ReportPunchLists
    /\ report = <<>>
    /\ WorkersIdle
    /\ DayIdle
    /\ EmpIdle
    /\ ParserIdle

\* the call generate_report(rep_employees, rep_punches, Company(), month, 2024)
GenerateReportCall ==
    /\ Len(report) < MaxReports
    /\ \E month \in {2, 3} :
          /\ rep_employees' = ProcessAll(rep_employees, rep_punches, month, 2024,
                                         CalculatorDefaultSchedule)
          /\ report' =
                Append([r \in 1..Len(report) |->
                           [report[r] EXCEPT
                               !.employees = HeldObjects(@, rep_employees')]],
                       GenerateReport(rep_employees, rep_punches, NewCompany,
                                      month, 2024, CalculatorDefaultSchedule))
    /\ UNCHANGED <<rep_punches, pool, workers>>
    /\ UNCHANGED <<day_vars, emp_vars, parser_vars>>

NextReport == GenerateReportCall

SpecReport == InitReport /\ [][NextReport]_vars

-----------------------------------------------------------------------------
(* The workers specification: the loop of generate_report run by one       *)
(* worker per employee, each worker a call of process_employee whose       *)
(* statements are interleaved with those of the others                     *)

\* generate_report, "[p for p in punches if p.pis == pis]"
PunchesOf(punches, pis) ==
    LET Mine(p) == p.pis = pis
    IN  SelectSeq(punches, Mine)

\* the mutant of AppendDay in which the employees share one list of days
AppendDayShared(employees, i, workday) ==
    [k \in 1..Len(employees) |->
        [employees[k] EXCEPT !.workdays = Append(@, workday)]]

\* process_employee, "employee.workdays.append(workday)" on the employee at
\* position i of the dict
AppendDay(employees, i, workday) ==
    [employees EXCEPT ![i].workdays = Append(@, workday)]

\* a schedule that differs from the default one in its days and hours
WorkerSchedule ==
    [DefaultSchedule EXCEPT !.schedule_type = "SCALE_5X2",
                            !.workdays = {0, 1, 2, 3},
                            !.daily_hours = 6 * 60]

\* the employees handed to the workers: "111" and "222", each with or without
\* a schedule of its own
WorkerEmployees ==
    {[Employee(pis, <<>>) EXCEPT !.schedule = schedule] :
        pis \in {<<49, 49, 49>>, <<50, 50, 50>>},
        schedule \in {<<>>, <<WorkerSchedule>>}}

\* the dicts handed over: one or two employees under different identifiers
WorkerMaps ==
    {emps \in UNION {[1..n -> WorkerEmployees] : n \in 1..2} :
        \A i, j \in 1..Len(emps) : i # j => emps[i].pis # emps[j].pis}

\* a worker before its first statement
NewWorker ==
    [pc |-> "call", emp_punches |-> <<>>, schedule |-> DefaultSchedule, day_num |-> 1]

InitWorkers ==
    /\ rep_employees \in WorkerMaps
    /\ rep_punches \in ReportPunchLists
    /\ report = <<>>
    /\ \E month \in {2, 3} :
          pool = [employees |-> rep_employees, month |-> month, year |-> 2024]
    /\ workers = [i \in 1..Len(rep_employees) |-> NewWorker]
    /\ DayIdle
    /\ EmpIdle
    /\ ParserIdle

\* worker i is called with the punches of its employee and reads the schedule
WorkerCall(i) ==
    /\ workers[i].pc = "call"
    /\ workers' = [workers EXCEPT
            ![i].pc = "reset",
            ![i].emp_punches = PunchesOf(rep_punches, rep_employees[i].pis),
            ![i].schedule = ScheduleFor(rep_employees[i], CalculatorDefaultSchedule)]
    /\ UNCHANGED <<rep_employees, rep_punches, report, pool>>
    /\ UNCHANGED <<day_vars, emp_vars, parser_vars>>

\* worker i: "employee.workdays = []"
WorkerReset(i) ==
    /\ workers[i].pc = "reset"
    /\ rep_employees' = [rep_employees EXCEPT ![i].workdays = <<>>]
    /\ workers' = [workers EXCEPT ![i].pc = "days", ![i].day_num = 1]
    /\ UNCHANGED <<rep_punches, report, pool>>
    /\ UNCHANGED <<day_vars, emp_vars, parser_vars>>

\* worker i: one turn of the loop over the days of the month
WorkerDay(i) ==
    /\ workers[i].pc = "days"
    /\ LET w == workers[i]
           current_date == Date(pool.year, pool.month, w.day_num)
           workday == CalculateWorkday(
                        current_date,
                        PunchesOfDay(w.emp_punches, pool.month, pool.year, current_date),
                        w.schedule)
           last == w.day_num = DaysInMonth(pool.year, pool.month)
       IN  /\ rep_employees' = AppendDay(rep_employees, i, workday)
           /\ workers' = [workers EXCEPT
                    ![i].pc = IF last THEN "done" ELSE "days",
                    ![i].day_num = IF last THEN @ ELSE @ + 1]
    /\ UNCHANGED <<rep_punches, report, pool>>
    /\ UNCHANGED <<day_vars, emp_vars, parser_vars>>

NextWorkers ==
    \E i \in 1..Len(workers) :
        \/ WorkerCall(i)
        \/ WorkerReset(i)
        \/ WorkerDay(i)

SpecWorkers == InitWorkers /\ [][NextWorkers]_vars

-----------------------------------------------------------------------------
(* Claims about one day (checked under SpecDay)                            *)

Returned == day_result # <<>>

Result == day_result[1]

\* Claim C2 as stated: for every DaySummary produced by _calculate_workday, on a
\* workday or not, overtime_hours <= schedule.max_daily_overtime_hours.
C2_OvertimeNeverAboveCap ==
    Returned => Result.overtime_hours <= day_schedule.max_daily_overtime_hours

\* Claim C2, amended: on a workday overtime_hours <= max_daily_overtime_hours;
\* on a day off with two or more punches the overtime is the whole of the
\* worked hours, which the cap does not limit.
C2_OvertimeCappedOnWorkdays ==
    Returned =>
        /\ Result.is_workday =>
              Result.overtime_hours <= day_schedule.max_daily_overtime_hours
        /\ ~Result.is_workday /\ Len(day_punches) >= 2 =>
              Result.overtime_hours = Result.worked_hours

\* C2's case: a workday whose excess is above the cap and is booked as the cap
C2_Witness ==
    /\ Returned
    /\ Result.is_workday
    /\ Result.worked_hours - Result.expected_hours
          > day_schedule.max_daily_overtime_hours
    /\ day_schedule.max_daily_overtime_hours > 0
    /\ Result.overtime_hours = day_schedule.max_daily_overtime_hours

\* Claim C3: whenever the cap is applied (a workday with two or more punches
\* whose worked hours exceed the expected hours by more than the tolerance and
\* by more than max_daily_overtime_hours), the DaySummary returned carries the
\* observation that the overtime limit was exceeded, for every punch count and
\* every break length.
C3_CapCarriesNote ==
    Returned /\ Result.is_workday /\ Len(day_punches) >= 2
      /\ Result.worked_hours
            > Result.expected_hours + day_schedule.tolerance_minutes
      /\ Result.worked_hours - Result.expected_hours
            > day_schedule.max_daily_overtime_hours
    => Result.observation.kind = "Excedeu limite"

\* Claim C4: overtime_hours and deficit_hours of a DaySummary are never both
\* positive, for every punch count, weekday and schedule.
C4_OvertimeDeficitExclusive ==
    Returned =>
        /\ Result.overtime_hours > 0 => Result.deficit_hours = 0
        /\ Result.deficit_hours > 0 => Result.overtime_hours = 0

\* C4's case: a workday with punches booked as overtime, the worked hours
\* being above the tolerance band
C4_Witness ==
    /\ Returned
    /\ Result.is_workday
    /\ Len(day_punches) >= 2
    /\ Result.overtime_hours > 0
    /\ Result.deficit_hours = 0

C6_ContinuousShiftNoted ==
    Returned /\ Result.is_workday /\ Result.expected_hours > 6 * 60
      /\ Len(day_punches) = 2
    => /\ Result.worked_hours =
              Minutes(day_punches[2].datetime) - Minutes(day_punches[1].datetime)
       /\ Result.break_minutes = 0
       /\ Result.observation.kind = "Jornada continua"

-----------------------------------------------------------------------------
(* Claims about one employee's month (checked under SpecMonth)             *)

\* the Gregorian calendar: the number of days of a month
CalendarDays(year, month) ==
    LET leap == (year % 4 = 0 /\ year % 100 # 0) \/ year % 400 = 0
    IN  <<31, IF leap THEN 29 ELSE 28, 31, 30, 31, 30, 31, 31, 30, 31, 30, 31>>[month]

\* Claim C1: after process_employee, for every punch list (the empty one
\* included) and every valid (month, year), employee.workdays holds exactly
\* one DaySummary per calendar date of that month: as many entries as the
\* month has days (28 to 31), no date missing, none twice, none of another
\* month.
C1_OneDayPerCalendarDate ==
    calls > 0 =>
        LET n == CalendarDays(target.year, target.month)
            wds == employee.workdays
        IN  /\ Len(wds) = n
            /\ n \in 28..31
            /\ \A d \in 1..n :
                  Cardinality({i \in 1..Len(wds) :
                      wds[i].date = Date(target.year, target.month, d)}) = 1
            /\ \A i \in 1..Len(wds) :
                  /\ wds[i].date.year = target.year
                  /\ wds[i].date.month = target.month

\* C1's case: a second call, for the February of a leap year, on an employee
\* without punches, leaves 29 days
C1_Witness ==
    /\ calls = 2
    /\ emp_punches = <<>>
    /\ target = [month |-> 2, year |-> 2024]
    /\ Len(employee.workdays) = 29

-----------------------------------------------------------------------------
(* Claims about the parser (checked under SpecParser)                      *)

Readable == disk.readable

Lines == disk.lines

\* the type-3 records of the file, whatever their length
PunchRecords == {i \in 1..Len(Lines) : Lines[i].rtype = "3" /\ ~Lines[i].trailer}

\* the first type-3 record of the file carries an ISO timestamp right after its
\* type marker
FirstPunchIsIso ==
    /\ Readable
    /\ PunchRecords # {}
    /\ \E i \in PunchRecords :
          /\ \A j \in PunchRecords : i <= j
          /\ Lines[i].stamp = "iso"

\* Claim C7 as stated: a file whose first type-3 record carries an ISO timestamp
\* right after the type marker is detected as controlid_iso, whatever its other
\* lines, the first (header) line included.
C7_IsoPunchSelectsIso ==
    \A r \in 1..Len(returned) :
        FirstPunchIsIso => returned[r].format_detected = "controlid_iso"

\* Claim C7, amended: such a file is detected as controlid_iso whatever its
\* other lines, unless its first line contains REP_C or REP-C; then it is
\* detected as portaria671 and the records are not looked at.
C7_IsoPunchSelectsIsoUnlessRepC ==
    \A r \in 1..Len(returned) :
        FirstPunchIsIso =>
            returned[r].format_detected =
                IF Lines[1].repc THEN "portaria671" ELSE "controlid_iso"

\* C7's case: an ISO punch record behind a header that does not announce REP-C
C7_Witness ==
    /\ returned # <<>>
    /\ FirstPunchIsIso
    /\ Lines[1].rtype = "1"
    /\ ~Lines[1].repc
    /\ returned[1].format_detected = "controlid_iso"
    /\ returned[1].punches # <<>>

\* the file has no type-3 record of at least 20 characters
NoPunchRecord ==
    /\ Readable
    /\ \A i \in 1..Len(Lines) : ~(Lines[i].len >= 20 /\ Lines[i].rtype = "3")

\* Claim C8 as stated: without a punch record of at least 20 characters the
\* detector looks at the header fields of the first line and selects the ISO
\* layout when they hold an ISO timestamp; only otherwise does it default to
\* portaria671.
C8_HeaderFallback ==
    \A r \in 1..Len(returned) :
        NoPunchRecord /\ Lines # <<>> =>
            returned[r].format_detected =
                IF Lines[1].hdr_iso THEN "controlid_iso" ELSE "portaria671"

\* Claim C8, amended: without a punch record of at least 20 characters the
\* detector selects portaria671, whatever the header fields of the first line
\* hold.
C8_DefaultWithoutPunch ==
    \A r \in 1..Len(returned) :
        NoPunchRecord => returned[r].format_detected = "portaria671"

\* C8's case: a header with an ISO timestamp, a registration and no punch
C8_Witness ==
    /\ returned # <<>>
    /\ NoPunchRecord
    /\ Len(Lines) = 2
    /\ Lines[1].hdr_iso
    /\ Lines[2].rtype = "5"
    /\ returned[1].format_detected = "portaria671"

\* Claim C9: parse_file called again on the unchanged file, on the same
\* instance or on another, leaves the same punches, employees, company, errors,
\* counters and layout; nothing of an earlier run carries over.
C9_ParseDeterministic ==
    \A r, q \in 1..Len(returned) :
        /\ returned[r].punches = returned[q].punches
        /\ returned[r].employees = returned[q].employees
        /\ returned[r].company = returned[q].company
        /\ returned[r].errors = returned[q].errors
        /\ returned[r].total_lines = returned[q].total_lines
        /\ returned[r].parsed_lines = returned[q].parsed_lines
        /\ returned[r].format_detected = returned[q].format_detected

\* C9's case: the second run of an instance on a file that yields punches,
\* employees and errors
C9_Witness ==
    /\ Len(returned) = 2
    /\ \E i \in Instances : parsers[i] = FreshParser
    /\ returned[2].punches # <<>>
    /\ returned[2].employees # <<>>
    /\ returned[2].errors # <<>>

TimeOrdered(punches) ==
    \A i, j \in 1..Len(punches) :
        i < j => Minutes(punches[i].datetime) <= Minutes(punches[j].datetime)

\* punches of the same datetime are in ascending NSR order
TiesByNsr(punches) ==
    \A i, j \in 1..Len(punches) :
        i < j /\ punches[i].datetime = punches[j].datetime
            => punches[i].nsr <= punches[j].nsr

\* punches of the same datetime are in the order they have in raw
TiesAsIn(punches, raw) ==
    \A k \in 1..Len(raw) :
        LET Same(p) == p.datetime = raw[k].datetime
        IN  SelectSeq(punches, Same) = SelectSeq(raw, Same)

\* Claim C10 as stated: after parse_file the punch list is in ascending
\* timestamp order and punches of equal timestamps are in ascending NSR order,
\* whatever the order of the lines.
C10_SortedTiesByNsr ==
    \A r \in 1..Len(returned) :
        TimeOrdered(returned[r].punches) /\ TiesByNsr(returned[r].punches)

\* Claim C10, amended: after parse_file the punch list is in ascending
\* timestamp order and punches of equal timestamps are in the order of their
\* lines in the file (the sort is stable and its key is the timestamp alone);
\* get_punches_by_pis returns the punches of one identifier in that same order.
C10_SortedTiesInFileOrder ==
    \A r \in 1..Len(returned) :
        LET raw == Decode(FreshParser, disk).punches
            punches == returned[r].punches
        IN  /\ TimeOrdered(punches)
            /\ Len(punches) = Len(raw)
            /\ TiesAsIn(punches, raw)
            /\ \A pis \in {"P1", "P2"} :
                  LET Mine(p) == p.pis = pis
                      mine == GetPunchesByPis(returned[r], pis)
                  IN  /\ TimeOrdered(mine)
                      /\ TiesAsIn(mine, SelectSeq(raw, Mine))
                      /\ Len(mine) = Len(SelectSeq(raw, Mine))

\* C10's case: a file with two punches of one minute whose line order is not
\* their NSR order; they are left in line order
C10_Witness ==
    /\ returned # <<>>
    /\ Readable
    /\ Len(returned[1].punches) = 2
    /\ returned[1].punches[1].datetime = returned[1].punches[2].datetime
    /\ returned[1].punches[1].nsr > returned[1].punches[2].nsr
    /\ Lines[1].nsr = returned[1].punches[1].nsr

\* the instance after "self._detect_format(content)", before the first line
Started ==
    [FreshParser EXCEPT !.total_lines = Len(Lines),
                        !.format_detected = DetectFormat(Lines)]

\* the instance before and after the loop of parse_file has handled line k
Before(k) == ParseLines(Started, SubSeq(Lines, 1, k - 1), 1)

After(k) == ParseLines(Started, SubSeq(Lines, 1, k), 1)

\* line k is a type-3 record whose date and time fields are numbers at the
\* offsets of the detected layout
NumericPunch(k) ==
    /\ Lines[k].rtype = "3"
    /\ Lines[k].len >= 34
    /\ ~Lines[k].trailer
    /\ ~Lines[k].sig
    /\ Lines[k].stamp = (IF Started.format_detected = "controlid_iso"
                         THEN "iso" ELSE "compact")

\* the date and time of the record are not a minute of the calendar, or its
\* year is outside 2000..2100
OutOfCalendar(line) ==
    ~ /\ line.year \in 2000..2100
      /\ line.month \in 1..12
      /\ line.day \in 1..CalendarDays(line.year, line.month)
      /\ line.hour \in 0..23
      /\ line.minute \in 0..59

\* line k leaves punches, employees and the error log as they were
Silent(k) ==
    /\ After(k).punches = Before(k).punches
    /\ After(k).employees = Before(k).employees
    /\ After(k).errors = Before(k).errors

\* Claim C11: a type-3 record whose day, month, year, hour or minute is outside
\* the calendar-valid range (a day the month does not have included), or whose
\* employee identifier is empty, is skipped silently: no punch, no employee and
\* no entry of the error log comes of it.
C11_InvalidPunchSkippedSilently ==
    returned # <<>> /\ Readable =>
        \A k \in 1..Len(Lines) :
            NumericPunch(k) /\ (OutOfCalendar(Lines[k]) \/ Lines[k].pis = "")
                => Silent(k)

\* line k is a type-3 record that _parse_line hands to _parse_punch
ReachesParsePunch(k) ==
    /\ Lines[k].len >= 10
    /\ ~Lines[k].trailer
    /\ ~(Lines[k].sig /\ Lines[k].len < 120)
    /\ Lines[k].rtype = "3"

\* the date and time of line k are read at the fixed offsets and are not digits
\* there: int() raises
ExtractionFails(k) ==
    /\ ReachesParsePunch(k)
    /\ Started.format_detected # "controlid_iso"
    /\ Lines[k].stamp # "compact"

\* the run went on behind line k: every line that is not blank is counted as
\* parsed, and every well-formed punch record behind line k is in the punch list
WentOn(k, result) ==
    /\ result.parsed_lines = Cardinality({j \in 1..Len(Lines) : Lines[j].len > 0})
    /\ \A j \in (k + 1)..Len(Lines) :
          NumericPunch(j) /\ ~OutOfCalendar(Lines[j]) /\ Lines[j].pis # ""
              => \E i \in 1..Len(result.punches) : result.punches[i].nsr = Lines[j].nsr

ReachesParseEmployee(k) ==
    /\ Lines[k].len >= 10
    /\ ~Lines[k].trailer
    /\ ~(Lines[k].sig /\ Lines[k].len < 120)
    /\ Lines[k].rtype = "5"

\* line k is written in the layout the detector selected
OwnLayout(k) ==
    (Started.format_detected = "controlid_iso") = (Lines[k].layout = "iso")

\* the employees of after are those of before, in the same places, none
\* missing, differing at most in the name of one of them, with at most one
\* more employee behind them
OnlyOneNameMayDiffer(before, after) ==
    /\ Len(after) \in {Len(before), Len(before) + 1}
    /\ \A i \in 1..Len(before) :
          after[i] = [before[i] EXCEPT !.name = after[i].name]
    /\ Cardinality({i \in 1..Len(before) : after[i].name # before[i].name}) <= 1

\* Claim C13: a type-5 record with a non-empty identifier creates the employee
\* if the identifier is unseen and otherwise changes only the name of the
\* existing employee, and only when the record carries a name; the punch list,
\* the other employees and the other fields of that employee are unchanged, and
\* no line of a file ever removes an employee.
C13_RegistrationTouchesOnlyName ==
    \A r \in 1..Len(returned) : Readable =>
        \A k \in 1..Len(Lines) :
            LET before == Before(k)
                after == After(k)
                rec == Lines[k]
            IN  /\ Len(after.employees) >= Len(before.employees)
                /\ \A i \in 1..Len(before.employees) :
                      after.employees[i].pis = before.employees[i].pis
                /\ ReachesParseEmployee(k) =>
                      /\ after.punches = before.punches
                      /\ after.errors = before.errors
                      /\ after.company = before.company
                      /\ OnlyOneNameMayDiffer(before.employees, after.employees)
                /\ ReachesParseEmployee(k) /\ OwnLayout(k) /\ rec.pis # "" =>
                      IF \E i \in 1..Len(before.employees) :
                            before.employees[i].pis = rec.pis
                      THEN after.employees =
                              [i \in 1..Len(before.employees) |->
                                  IF before.employees[i].pis = rec.pis /\ rec.name # ""
                                  THEN [before.employees[i] EXCEPT !.name = rec.name]
                                  ELSE before.employees[i]]
                      ELSE after.employees =
                              Append(before.employees,
                                     [pis |-> rec.pis, name |-> rec.name,
                                      schedule |-> <<>>, workdays |-> <<>>])

\* C13's case: two registrations of one identifier with different names; the
\* first creates the employee, the second leaves one employee under the new name
C13_Witness ==
    /\ returned # <<>>
    /\ Readable
    /\ Len(Lines) = 2
    /\ ReachesParseEmployee(1) /\ ReachesParseEmployee(2)
    /\ OwnLayout(1) /\ OwnLayout(2)
    /\ Lines[1].pis = Lines[2].pis
    /\ Lines[1].name # "" /\ Lines[2].name # "" /\ Lines[1].name # Lines[2].name
    /\ Len(Before(2).employees) = 1
    /\ Before(2).employees[1].name = Lines[1].name
    /\ Len(returned[1].employees) = 1
    /\ returned[1].employees[1].name = Lines[2].name

\* Claim C14: when the file cannot be read (not found, or another read
\* failure), parse_file returns an empty result: no punches, an empty employee
\* map, a default company, and exactly one entry in the error log.
C14_UnreadableFileEmptyResult ==
    \A r \in 1..Len(returned) : ~Readable =>
        /\ returned[r].punches = <<>>
        /\ returned[r].employees = <<>>
        /\ returned[r].company = NewCompany
        /\ Len(returned[r].errors) = 1
        /\ returned[r].errors[1].place = "Arquivo"
        /\ returned[r].errors[1].cause = disk.failure

\* C14's case: the second call of one instance on a file that is there and
\* cannot be opened
C14_Witness ==
    /\ Len(returned) = 2
    /\ disk = LockedFile
    /\ \E i \in Instances : parsers[i] = FreshParser
    /\ Len(returned[2].errors) = 1
    /\ returned[2].errors[1].cause = "Erro ao ler arquivo"

-----------------------------------------------------------------------------
(* Claims about the monthly report (checked under SpecReport)              *)

Reported == report # <<>>

Report == report[1]

\* the report holds exactly one entry per employee of the dict passed, and the
\* entry is that employee
OneEntryPerEmployee ==
    /\ Len(Report.employees) = Len(rep_employees)
    /\ \A i \in 1..Len(rep_employees) :
          Cardinality({j \in 1..Len(Report.employees) :
              Report.employees[j] = rep_employees[i]}) = 1

\* the entries are in ascending order of Key, entries of equal keys in the
\* order of the dict
OrderedBy(Key(_)) ==
    \A i, j \in 1..Len(Report.employees) : i < j =>
        LET a == Report.employees[i]
            b == Report.employees[j]
            PlaceOf(e) == CHOOSE k \in 1..Len(rep_employees) : rep_employees[k] = e
        IN  \/ TextLess(Key(a), Key(b))
            \/ Key(a) = Key(b) /\ PlaceOf(a) < PlaceOf(b)

\* the name, and for an employee without a name the identifier itself
NameOrIdentifier(emp) == IF emp.name # <<>> THEN emp.name ELSE emp.pis

\* the name, and for an employee without a name the text "PIS " followed by
\* the identifier
NameOrPisLabel(emp) == IF emp.name # <<>> THEN emp.name ELSE <<80, 73, 83, 32>> \o emp.pis

\* Claim C15 as stated: the employees of the report are in ascending order of
\* display name, an employee without a name being ordered by its identifier,
\* and the report holds exactly one entry per employee of the input map.
C15_OrderedByNameOrIdentifier ==
    Reported => OneEntryPerEmployee /\ OrderedBy(NameOrIdentifier)

\* Claim C15, amended: the employees of the report are in ascending order of
\* display name, the display name of an employee without a name being the text
\* "PIS " followed by its identifier (so such an employee is placed among the
\* names by the letters P, I, S, not by its digits); employees of equal display
\* names keep the order of the input map; the report holds exactly one entry
\* per employee of the input map.
C15_OrderedByDisplayName ==
    Reported => OneEntryPerEmployee /\ OrderedBy(NameOrPisLabel)

\* C15's case: a named employee, a nameless one and another named one, passed
\* in another order than the report lists them; the nameless one is listed
\* between "ANA" and "ZECA"
C15_Witness ==
    /\ Reported
    /\ Len(Report.employees) = 3
    /\ Report.employees[1].name = <<65, 78, 65>>
    /\ Report.employees[2].name = <<>>
    /\ Report.employees[3].name = <<90, 69, 67, 65>>
    /\ rep_employees[1].name = <<90, 69, 67, 65>>
    /\ rep_punches # <<>>

-----------------------------------------------------------------------------
(* More claims about one day (checked under SpecDay)                       *)

\* the weekday of day_date, 0 = Monday .. 6 = Sunday: the dates of the calls
\* are the week that starts on Monday 2024-01-01
WeekdayOfCall == day_date.day - 1

\* the time of day of punch i of the call, in minutes
TimeAt(i) == day_punches[i].datetime.hour * 60 + day_punches[i].datetime.minute

\* the duration of the pair (i, i + 1) of the call, nothing when it is not
\* positive or the list ends before it
PairAt(i) ==
    IF i + 1 <= Len(day_punches) /\ TimeAt(i + 1) > TimeAt(i)
    THEN TimeAt(i + 1) - TimeAt(i) ELSE 0

\* the sum of the durations of the complete consecutive pairs
PairSum == PairAt(1) + PairAt(3) + PairAt(5) + PairAt(7)

\* the table of the day classifier: is the weekday a workday
TableWorkday(weekday, schedule) ==
    CASE schedule.schedule_type \in {"STANDARD", "SCALE_6X1"} -> weekday \in 0..5
      [] schedule.schedule_type \in {"SCALE_5X2", "PARTIAL_30", "PARTIAL_26", "CUSTOM"} ->
            weekday \in schedule.workdays
      [] schedule.schedule_type = "SCALE_12X36" -> TRUE

\* the table of the day classifier: the expected hours, in minutes
TableExpected(weekday, schedule) ==
    CASE schedule.schedule_type \in {"STANDARD", "SCALE_6X1"} ->
            IF weekday \in 0..4
            THEN (IF schedule.daily_hours = 0 THEN 8 * 60 ELSE schedule.daily_hours)
            ELSE IF weekday = 5 THEN schedule.saturday_hours
            ELSE 0
      [] schedule.schedule_type \in {"SCALE_5X2", "PARTIAL_30", "PARTIAL_26", "CUSTOM"} ->
            IF weekday \in schedule.workdays THEN schedule.daily_hours ELSE 0
      [] schedule.schedule_type = "SCALE_12X36" -> 12 * 60

\* Claim C16: for every weekday 0..6 and every schedule, is_workday and
\* expected_hours are those of the table: Standard and Six-by-One work Monday
\* to Saturday with daily_hours (8 when unset) Monday to Friday, saturday_hours
\* on Saturday and 0 on Sunday; Five-by-Two, Partial-30, Partial-26 and Custom
\* work on the weekdays of the configured set with daily_hours, 0 otherwise;
\* Twelve-by-ThirtySix works every weekday with 12 hours.
C16_ClassifierMatchesTable ==
    Returned =>
        /\ Result.is_workday = TableWorkday(WeekdayOfCall, day_schedule)
        /\ Result.expected_hours = TableExpected(WeekdayOfCall, day_schedule)

\* C16's case: a Sunday under a Custom schedule whose set holds Sunday is a
\* workday of daily_hours
C16_Witness ==
    /\ Returned
    /\ day_schedule.schedule_type = "CUSTOM"
    /\ WeekdayOfCall = 6
    /\ Result.is_workday
    /\ Result.expected_hours = day_schedule.daily_hours
    /\ Result.expected_hours > 0

\* Claim C17: on a workday with exactly four punches p1 < p2 < p3 < p4,
\* worked_hours = (p2 - p1) + (p4 - p3) and break_minutes = p3 - p2; 08:00,
\* 12:00, 13:00, 17:00 on a Standard weekday with expected 8h, entry 08:00 and
\* tolerance 10 gives worked 8h, break 60, no overtime, no deficit, not late.
C17_FourPunchDay ==
    Returned /\ Result.is_workday /\ Len(day_punches) = 4
      /\ TimeAt(1) < TimeAt(2) /\ TimeAt(2) < TimeAt(3) /\ TimeAt(3) < TimeAt(4)
    => /\ Result.worked_hours = (TimeAt(2) - TimeAt(1)) + (TimeAt(4) - TimeAt(3))
       /\ Result.break_minutes = TimeAt(3) - TimeAt(2)
       /\ (/\ day_schedule.schedule_type = "STANDARD"
           /\ WeekdayOfCall <= 4
           /\ Result.expected_hours = 8 * 60
           /\ day_schedule.entry_time = 8 * 60
           /\ day_schedule.tolerance_minutes = 10
           /\ <<TimeAt(1), TimeAt(2), TimeAt(3), TimeAt(4)>>
                 = <<8 * 60, 12 * 60, 13 * 60, 17 * 60>>)
          => /\ Result.worked_hours = 8 * 60
             /\ Result.break_minutes = 60
             /\ Result.overtime_hours = 0
             /\ Result.deficit_hours = 0
             /\ ~Result.is_late

\* C17's case: the scenario itself, 08:00, 12:00, 13:00, 17:00 on a Standard
\* Wednesday
C17_Witness ==
    /\ Returned
    /\ day_schedule.schedule_type = "STANDARD"
    /\ day_schedule.tolerance_minutes = 10
    /\ WeekdayOfCall = 2
    /\ Len(day_punches) = 4
    /\ <<TimeAt(1), TimeAt(2), TimeAt(3), TimeAt(4)>>
          = <<8 * 60, 12 * 60, 13 * 60, 17 * 60>>
    /\ Result.worked_hours = 8 * 60
    /\ Result.break_minutes = 60

\* Claim C18: a day with exactly one punch is incomplete, with worked_hours 0,
\* overtime_hours 0 and the observation of the incomplete punch; a workday is
\* also absent with deficit_hours = expected_hours; a day off is not absent and
\* has deficit_hours 0.  No lateness is recorded for it.
C18_SinglePunchIncomplete ==
    Returned /\ Len(day_punches) = 1 =>
        /\ Result.is_incomplete
        /\ Result.worked_hours = 0
        /\ Result.overtime_hours = 0
        /\ Result.observation = Obs("Marcacao incompleta", 1)
        /\ Result.is_workday =>
              Result.is_absent /\ Result.deficit_hours = Result.expected_hours
        /\ ~Result.is_workday =>
              ~Result.is_absent /\ Result.deficit_hours = 0
        /\ ~Result.is_late
        /\ Result.late_minutes = 0

\* C18's case: a single punch at 12:00, hours after the entry time, on a
\* workday of 8 hours: absent with the whole day as deficit, and not late
C18_Witness ==
    /\ Returned
    /\ Len(day_punches) = 1
    /\ TimeAt(1) > day_schedule.entry_time + day_schedule.tolerance_minutes
    /\ Result.is_workday
    /\ Result.is_absent
    /\ Result.deficit_hours = 8 * 60
    /\ ~Result.is_late

\* Claim C19: a day with an odd punch count n >= 3 has is_incomplete set and,
\* in the DaySummary returned, the observation that names the count n; its
\* worked_hours is the sum of the floor(n/2) complete consecutive pairs, the
\* last punch adding nothing (08:00, 12:00, 13:00 gives 4h).
C19_OddCountNoted ==
    Returned /\ Len(day_punches) >= 3 /\ Len(day_punches) % 2 = 1 =>
        /\ Result.is_incomplete
        /\ Result.observation = Obs("Marcacao impar", Len(day_punches))
        /\ Result.worked_hours = PairSum

\* Claim C20: on a day off with two or more punches all worked hours are
\* overtime (overtime_hours = worked_hours = the sum of the positive pair
\* durations), deficit_hours is 0, and neither lateness nor absence is set,
\* whatever the time of the first punch.
C20_DayOffAllOvertime ==
    Returned /\ ~Result.is_workday /\ Len(day_punches) >= 2 =>
        /\ Result.worked_hours = PairSum
        /\ Result.overtime_hours = Result.worked_hours
        /\ Result.deficit_hours = 0
        /\ ~Result.is_late
        /\ Result.late_minutes = 0
        /\ ~Result.is_absent

\* C20's case: a Sunday under the default schedule with a first punch at noon
\* and ten hours worked, all of them overtime, above the daily cap
C20_Witness ==
    /\ Returned
    /\ day_schedule = DefaultSchedule
    /\ WeekdayOfCall = 6
    /\ Len(day_punches) = 2
    /\ TimeAt(1) = 12 * 60
    /\ Result.worked_hours = 10 * 60
    /\ Result.overtime_hours = 10 * 60
    /\ Result.overtime_hours > day_schedule.max_daily_overtime_hours

\* Claim C21: a day with zero punches is, on a workday, absent with
\* deficit_hours = expected_hours, worked_hours 0, overtime_hours 0 and the
\* no-punches observation; on a day off it is an empty day: not absent, every
\* hour field 0 and no observation.
C21_NoPunchesDay ==
    Returned /\ day_punches = <<>> =>
        /\ Result.worked_hours = 0
        /\ Result.overtime_hours = 0
        /\ Result.break_minutes = 0
        /\ ~Result.is_late /\ Result.late_minutes = 0
        /\ ~Result.is_incomplete
        /\ Result.is_workday =>
              /\ Result.is_absent
              /\ Result.deficit_hours = Result.expected_hours
              /\ Result.observation = Obs("Sem marcacoes", 0)
        /\ ~Result.is_workday =>
              /\ ~Result.is_absent
              /\ Result.deficit_hours = 0
              /\ Result.expected_hours = 0
              /\ Result.observation = NoObs

\* C21's case: a Saturday without punches under the default schedule is absent
\* with the 4 hours of a Saturday as deficit
C21_Witness ==
    /\ Returned
    /\ day_punches = <<>>
    /\ day_schedule = DefaultSchedule
    /\ WeekdayOfCall = 5
    /\ Result.is_absent
    /\ Result.deficit_hours = 4 * 60

\* the expected entry of the call: saturday_entry for the Standard variant on
\* Saturday, entry_time in every other case
EntryOfCall ==
    IF day_schedule.schedule_type = "STANDARD" /\ WeekdayOfCall = 5
    THEN day_schedule.saturday_entry
    ELSE day_schedule.entry_time

\* Claim C22: on a workday with two or more punches, with d = (time of day of
\* the first punch) - (expected entry), the expected entry being saturday_entry
\* only for the Standard variant on Saturday and entry_time otherwise
\* (Six-by-One on Saturday included), is_late is true and late_minutes = d
\* exactly when d > tolerance_minutes; otherwise is_late is false and
\* late_minutes = 0.
C22_Lateness ==
    Returned /\ Result.is_workday /\ Len(day_punches) >= 2 =>
        LET d == TimeAt(1) - EntryOfCall
        IN  IF d > day_schedule.tolerance_minutes
            THEN Result.is_late /\ Result.late_minutes = d
            ELSE ~Result.is_late /\ Result.late_minutes = 0

\* C22's case: a Saturday under Six-by-One with saturday_entry 09:00 and a first
\* punch at 12:00: late by the 240 minutes since entry_time 08:00
C22_Witness ==
    /\ Returned
    /\ day_schedule.schedule_type = "SCALE_6X1"
    /\ day_schedule.saturday_entry # day_schedule.entry_time
    /\ WeekdayOfCall = 5
    /\ Len(day_punches) >= 2
    /\ TimeAt(1) = 12 * 60
    /\ Result.is_late
    /\ Result.late_minutes = 4 * 60

\* Claim C23: on a workday with two or more punches, with t =
\* tolerance_minutes / 60: if worked > expected + t then overtime_hours =
\* min(worked - expected, max_daily_overtime_hours) and deficit_hours = 0; if
\* worked < expected - t then deficit_hours = expected - worked and
\* overtime_hours = 0; if worked is within t of expected, the bounds included,
\* both are 0.
C23_OvertimeDeficitBand ==
    Returned /\ Result.is_workday /\ Len(day_punches) >= 2 =>
        LET worked == Result.worked_hours
            expected == Result.expected_hours
            t == day_schedule.tolerance_minutes
        IN  IF worked > expected + t
            THEN /\ Result.overtime_hours =
                        IF worked - expected <= day_schedule.max_daily_overtime_hours
                        THEN worked - expected
                        ELSE day_schedule.max_daily_overtime_hours
                 /\ Result.deficit_hours = 0
            ELSE IF worked < expected - t
            THEN /\ Result.deficit_hours = expected - worked
                 /\ Result.overtime_hours = 0
            ELSE Result.overtime_hours = 0 /\ Result.deficit_hours = 0

-----------------------------------------------------------------------------
(* Claims about one day of punches in any order (checked under             *)
(* SpecDayAnyOrder)                                                        *)

\* Claim C24: for every punch list, in any order of timestamps, and every
\* schedule with non-negative hours, tolerance and cap, worked_hours,
\* overtime_hours, deficit_hours and break_minutes are all >= 0, and a
\* consecutive pair whose exit is not after its entry adds 0 to worked_hours
\* instead of being subtracted.
C24_NeverNegative ==
    Returned =>
        /\ Result.worked_hours >= 0
        /\ Result.overtime_hours >= 0
        /\ Result.deficit_hours >= 0
        /\ Result.break_minutes >= 0
        /\ Len(day_punches) >= 2 => Result.worked_hours = PairSum

\* C24's case: four punches on a workday, the first pair and the break
\* backwards in time, the second pair forwards: the hours worked are those of
\* the second pair and the break is 0
C24_Witness ==
    /\ Returned
    /\ Result.is_workday
    /\ Len(day_punches) = 4
    /\ TimeAt(2) < TimeAt(1)
    /\ TimeAt(3) < TimeAt(2)
    /\ TimeAt(4) > TimeAt(3)
    /\ Result.worked_hours = TimeAt(4) - TimeAt(3)
    /\ Result.break_minutes = 0

-----------------------------------------------------------------------------
(* Claims about the days of one employee's month (checked under SpecMonth) *)

\* the punches of the list passed in that lie in the target month and year
InTarget(p) == p.datetime.month = target.month /\ p.datetime.year = target.year

\* Claim C25: within every DaySummary produced by process_employee the
\* punches are in ascending order of timestamp, whatever the order of the
\* punch list passed in.
C25_DayPunchesAscending ==
    calls > 0 =>
        \A d \in 1..Len(employee.workdays) :
            LET ps == employee.workdays[d].punches
            IN  \A i, j \in 1..Len(ps) :
                    i < j => Minutes(ps[i].datetime) <= Minutes(ps[j].datetime)

\* C25's case: the list passed in has the 08:00 punch of 29 February before
\* the 00:30 punch of the same day, and the day holds them the other way round
C25_Witness ==
    /\ calls > 0
    /\ target = [month |-> 2, year |-> 2024]
    /\ Len(emp_punches) = 2
    /\ Minutes(emp_punches[1].datetime) > Minutes(emp_punches[2].datetime)
    /\ DateOf(emp_punches[1].datetime) = DateOf(emp_punches[2].datetime)
    /\ employee.workdays[29].punches = <<emp_punches[2], emp_punches[1]>>

\* Claim C26: punches are partitioned by calendar date and days are computed
\* independently: a punch of the target month and year is in the DaySummary
\* of its own date and in no other, as many times as the list passed in holds
\* it; a punch of another month or year is in none; and the DaySummary of a
\* date is what _calculate_workday gives for that date's punches alone, so a
\* punch of an adjacent day is never paired with it.
C26_PartitionedByDate ==
    calls > 0 =>
        LET wds == employee.workdays
            schedule == ScheduleFor(employee, CalculatorDefaultSchedule)
        IN  /\ \A k \in 1..Len(emp_punches) :
                  LET p == emp_punches[k]
                      days == {d \in 1..Len(wds) :
                                  \E i \in 1..Len(wds[d].punches) :
                                      wds[d].punches[i] = p}
                  IN  IF InTarget(p)
                      THEN days = {p.datetime.day}
                      ELSE days = {}
            /\ \A d \in 1..Len(wds) :
                  LET own == SelectSeq(emp_punches,
                                 LAMBDA p : DateOf(p.datetime) = wds[d].date)
                  IN  /\ Len(wds[d].punches) = Len(own)
                      /\ \A i \in 1..Len(own) :
                            \E j \in 1..Len(own) : wds[d].punches[i] = own[j]
                      /\ wds[d] = CalculateWorkday(wds[d].date,
                                                   SortByDatetime(own), schedule)

\* C26's case: an evening punch of 28 February and a punch just after
\* midnight of the 29th: each day holds its own single punch and no hours are
\* worked across midnight
C26_Witness ==
    /\ calls > 0
    /\ target = [month |-> 2, year |-> 2024]
    /\ Len(emp_punches) = 2
    /\ DateOf(emp_punches[1].datetime) = Date(2024, 2, 28)
    /\ DateOf(emp_punches[2].datetime) = Date(2024, 2, 29)
    /\ employee.workdays[28].punches = <<emp_punches[1]>>
    /\ employee.workdays[29].punches = <<emp_punches[2]>>
    /\ employee.workdays[28].worked_hours = 0
    /\ employee.workdays[29].worked_hours = 0

-----------------------------------------------------------------------------
(* Claims about the workers (checked under SpecWorkers)                    *)

\* what the sequential generate_report makes of the dict handed over
Sequential ==
    ProcessAll(pool.employees, rep_punches, pool.month, pool.year,
               CalculatorDefaultSchedule)

\* Claim C27: per-employee calculation is order-independent: whatever the
\* order in which the workers take their steps, a worker that has finished
\* leaves its employee with the DaySummary list that the sequential
\* generate_report gives it, and with nothing else of it changed; a worker
\* in the middle of its month has written the first days of that list; a worker
\* reads only its employee's punches and schedule (its own if it has one, else
\* the default) and writes only its employee's workdays.
C27_WorkersAsSequential ==
    \A i \in 1..Len(workers) :
        /\ workers[i].pc = "done" => rep_employees[i] = Sequential[i]
        /\ workers[i].pc = "days" =>
              rep_employees[i].workdays =
                  SubSeq(Sequential[i].workdays, 1, workers[i].day_num - 1)
        /\ [rep_employees[i] EXCEPT !.workdays = <<>>] = pool.employees[i]

\* C27's case: two employees with punches on 29 February, one of them with a
\* schedule of its own; the second worker has finished while the first is in
\* the middle of its month
C27_Witness ==
    /\ Len(workers) = 2
    /\ pool.month = 2
    /\ rep_punches # <<>>
    /\ rep_employees[1].schedule # rep_employees[2].schedule
    /\ workers[1].pc = "days"
    /\ workers[1].day_num = 10
    /\ workers[2].pc = "done"
    /\ Len(rep_employees[2].workdays) = 29
    /\ rep_employees[2].workdays[29].punches # <<>>
    /\ rep_employees[2] = Sequential[2]

-----------------------------------------------------------------------------
(* Claims about the lines without effect and the punches' employees        *)
(* (checked under SpecParser)                                              *)

\* line k is a record of type 2, 4 or 6, a line shorter than 10 characters,
\* a trailer line or a short signature line
WithoutEffect(k) ==
    \/ Lines[k].rtype \in {"2", "4", "6"}
    \/ Lines[k].len < 10
    \/ Lines[k].trailer
    \/ Lines[k].sig /\ Lines[k].len < 120

\* Claim C28: records of type 2, 4 and 6, lines shorter than 10 characters,
\* trailer lines and short signature lines leave the punch list, the employee
\* map, the company record and the error log unchanged.
C28_LinesWithoutEffect ==
    \A r \in 1..Len(returned) : Readable =>
        \A k \in 1..Len(Lines) : WithoutEffect(k) =>
            /\ After(k).punches = Before(k).punches
            /\ After(k).employees = Before(k).employees
            /\ After(k).company = Before(k).company
            /\ After(k).errors = Before(k).errors

\* C28's case: a punch followed by a short signature line that has the type
\* mark of a punch record: the result holds the one punch, its employee and no
\* error
C28_Witness ==
    /\ returned # <<>>
    /\ Readable
    /\ Len(Lines) = 2
    /\ Len(Before(2).punches) = 1
    /\ Lines[2].sig /\ Lines[2].len < 120 /\ Lines[2].rtype = "3"
    /\ Len(returned[1].punches) = 1
    /\ Len(returned[1].employees) = 1
    /\ returned[1].errors = <<>>

\* every punch of the instance has an identifier that is not empty and is the
\* key of exactly one employee of the instance
PunchesHaveEmployees(st) ==
    \A i \in 1..Len(st.punches) :
        /\ st.punches[i].pis # ""
        /\ Cardinality({e \in 1..Len(st.employees) :
                            st.employees[e].pis = st.punches[i].pis}) = 1

\* Claim C29: after every prefix of decoded lines, and at the end of
\* parse_file, every punch of the punch list has a non-empty employee
\* identifier that is a key of the employee map, under which there is exactly
\* one employee.
C29_PunchesHaveEmployees ==
    /\ \A r \in 1..Len(returned) : PunchesHaveEmployees(returned[r])
    /\ returned # <<>> /\ Readable =>
          \A k \in 0..Len(Lines) : PunchesHaveEmployees(After(k))

\* C29's case: the second run of an instance on a file of two punches of two
\* employees who have no registration record: both employees are there
C29_Witness ==
    /\ Len(returned) = 2
    /\ \E i \in Instances : parsers[i] = FreshParser
    /\ Readable
    /\ Len(Lines) = 2
    /\ Len(returned[2].punches) = 2
    /\ returned[2].punches[1].pis # returned[2].punches[2].pis
    /\ Len(returned[2].employees) = 2
    /\ Len(After(1).punches) = 1 /\ Len(After(1).employees) = 1

-----------------------------------------------------------------------------
(* Claims about reports of one dict (checked under SpecReport)             *)

\* the report of the last call
LastReport == report[Len(report)]

\* Claim C30: a MonthlyReport is not a snapshot: the employees a report holds
\* are the Employee objects of the dict, whose workdays the last call of
\* generate_report has replaced; so in every report returned so far, also one
\* made for another month, each employee is as the dict has it and carries
\* the days of the month of the last call, one per date of that month, once.
C30_ReportNotSnapshot ==
    \A r \in 1..Len(report) :
        \A i \in 1..Len(report[r].employees) :
            LET e == report[r].employees[i]
                n == CalendarDays(LastReport.year, LastReport.month)
            IN  /\ \E k \in 1..Len(rep_employees) : rep_employees[k] = e
                /\ Len(e.workdays) = n
                /\ \A d \in 1..n :
                      e.workdays[d].date = Date(LastReport.year, LastReport.month, d)

\* C30's case: a report for February followed by one for March on a dict of
\* an employee with punches on 29 February: the employee of the February
\* report has the 31 days of March and no punches on the 29th
C30_Witness ==
    /\ Len(report) = 2
    /\ report[1].month = 2
    /\ report[2].month = 3
    /\ rep_punches # <<>>
    /\ \E i \in 1..Len(report[1].employees) :
          /\ report[1].employees[i].pis = <<49, 49, 49>>
          /\ Len(report[1].employees[i].workdays) = 31
          /\ report[1].employees[i].workdays[29].date = Date(2024, 3, 29)
          /\ report[1].employees[i].workdays[29].punches = <<>>

=============================================================================
